---- MODULE Spec2Model ----
(***************************************************************************)
(* Perfect5Bot (src/main.py): watch-list scanner that fetches price bars   *)
(* with venue fallback, evaluates an EMA/Supertrend crossover on the       *)
(* latest 5-minute bar, suppresses repeats within 25 minutes and sends a   *)
(* Telegram alert.                                                         *)
(*                                                                         *)
(* Strings are sequences of one-character strings, so that strip, upper,   *)
(* split and endswith are computed as Python computes them.                *)
(* Wall-clock time is in seconds since Monday 00:00:00 IST.                *)
(***************************************************************************)
EXTENDS Integers, Sequences, FiniteSets, TLC

(***************************************************************************)
(* Bounds of the model                                                     *)
(***************************************************************************)
\* number of scan rounds explored by the scanner specification
MaxRounds == 2
\* candidates of a fallback chain, counted from the primary, that may
\* return bars in the scanner specification (the no-venue candidate may too)
MaxOk == 2
\* prices of the bounded bar windows are 1..MaxPrice
MaxPrice == 3
\* ATR values of the bounded bar windows are 0..MaxAtr
MaxAtr == 1
\* number of freely chosen most recent rows of a merged 5-minute frame
TailLen == 2
\* number of detections explored by the dedup specification
MaxDet == 3
\* compute_supertrend: rows of a frame, and the highest price of a bar
MaxBars == 3
MaxHigh == 2
\* parse_symbol: length of a raw watch-list string
MaxRaw == 3

(***************************************************************************)
(* Strings                                                                 *)
(***************************************************************************)
LowerCase == <<"a","b","c","d","e","f","g","h","i","j","k","l","m",
               "n","o","p","q","r","s","t","u","v","w","x","y","z">>
UpperCase == <<"A","B","C","D","E","F","G","H","I","J","K","L","M",
               "N","O","P","Q","R","S","T","U","V","W","X","Y","Z">>

\* str.upper() on one character
UpperChar(c) ==
    IF \E i \in 1..Len(LowerCase) : LowerCase[i] = c
    THEN UpperCase[CHOOSE i \in 1..Len(LowerCase) : LowerCase[i] = c]
    ELSE c

\* str.upper()
upper(s) == [i \in 1..Len(s) |-> UpperChar(s[i])]

IsSpace(c) == c \in {" ", "\t"}

\* str.strip(): drop leading and trailing whitespace
strip(s) ==
    IF \A i \in 1..Len(s) : IsSpace(s[i]) THEN <<>>
    ELSE LET first == CHOOSE i \in 1..Len(s) :
                         /\ ~IsSpace(s[i])
                         /\ \A j \in 1..(i-1) : IsSpace(s[j])
             last  == CHOOSE i \in 1..Len(s) :
                         /\ ~IsSpace(s[i])
                         /\ \A j \in (i+1)..Len(s) : IsSpace(s[j])
         IN  SubSeq(s, first, last)

\* str.endswith(suf)
endswith(s, suf) ==
    /\ Len(s) >= Len(suf)
    /\ SubSeq(s, Len(s) - Len(suf) + 1, Len(s)) = suf

\* s[:-3]
DropLast3(s) == IF Len(s) <= 3 THEN <<>> ELSE SubSeq(s, 1, Len(s) - 3)

\* ":" in s
HasColon(s) == \E i \in 1..Len(s) : s[i] = ":"

\* s.split(":", 1)
SplitColon(s) ==
    LET p == CHOOSE i \in 1..Len(s) :
                 s[i] = ":" /\ \A j \in 1..(i-1) : s[j] # ":"
    IN  <<SubSeq(s, 1, p - 1), SubSeq(s, p + 1, Len(s))>>

(***************************************************************************)
(* Venue codes                                                             *)
(***************************************************************************)
NSE == <<"N","S","E">>
BSE == <<"B","S","E">>
MCX == <<"M","C","X">>
TVC == <<"T","V","C">>
INDEX == <<"I","N","D","E","X">>
OANDA == <<"O","A","N","D","A">>
SKILLING == <<"S","K","I","L","L","I","N","G">>
CAPITALCOM == <<"C","A","P","I","T","A","L","C","O","M">>
VANTAGE == <<"V","A","N","T","A","G","E">>
IG == <<"I","G">>
SPREADEX == <<"S","P","R","E","A","D","E","X">>
SZSE == <<"S","Z","S","E">>
NSEIX == <<"N","S","E","I","X">>
DEFAULT == <<"D","E","F","A","U","L","T">>

\* Python's None, and any falsy venue, in `used_ex or ex_token`
None == <<>>

FALLBACK_EXCHANGES ==
    <<NSE, BSE, MCX, TVC, INDEX, OANDA, SKILLING, CAPITALCOM, VANTAGE,
      IG, SPREADEX, SZSE, NSEIX>>

(***************************************************************************)
(* parse_symbol                                                            *)
(***************************************************************************)
\* code in s
contains(s, code) ==
    \E i \in 1..(Len(s) - Len(code) + 1) :
        SubSeq(s, i, i + Len(code) - 1) = code

\* mutant: a string without colon and suffix takes the first venue code it
\* contains
parse_symbol_substring(raw) ==
    LET s == strip(raw) IN
    IF s = <<>> THEN <<NSE, <<>>>>
    ELSE IF HasColon(s)
         THEN LET parts == SplitColon(s)
              IN  <<upper(strip(parts[1])), strip(parts[2])>>
    ELSE LET up == upper(s) IN
         IF endswith(up, <<".","N","S">>) \/ endswith(up, <<"-","N","S">>)
         THEN <<NSE, DropLast3(s)>>
         ELSE IF endswith(up, <<".","B","O">>) \/ endswith(up, <<"-","B","O">>)
         THEN <<BSE, DropLast3(s)>>
         ELSE IF \E j \in 1..Len(FALLBACK_EXCHANGES) :
                    contains(up, FALLBACK_EXCHANGES[j])
         THEN <<FALLBACK_EXCHANGES[
                    CHOOSE j \in 1..Len(FALLBACK_EXCHANGES) :
                        /\ contains(up, FALLBACK_EXCHANGES[j])
                        /\ \A m \in 1..(j - 1) :
                              ~contains(up, FALLBACK_EXCHANGES[m])], s>>
         ELSE <<NSE, s>>

parse_symbol(raw) ==
    LET s == strip(raw) IN
    IF s = <<>> THEN <<NSE, <<>>>>
    ELSE IF HasColon(s)
         THEN LET parts == SplitColon(s)
              IN  <<upper(strip(parts[1])), strip(parts[2])>>
    ELSE LET up == upper(s) IN
         IF endswith(up, <<".","N","S">>) \/ endswith(up, <<"-","N","S">>)
         THEN <<NSE, DropLast3(s)>>
         ELSE IF endswith(up, <<".","B","O">>) \/ endswith(up, <<"-","B","O">>)
         THEN <<BSE, DropLast3(s)>>
         ELSE <<NSE, s>>

(***************************************************************************)
(* Market hours                                                            *)
(***************************************************************************)
\* "%H:%M" as seconds after midnight
HM(h, m) == h * 3600 + m * 60

WeekDays == {0, 1, 2, 3, 4}

MARKET_TIMINGS(ex) ==
    CASE ex = NSE   -> [start |-> HM(9, 15), end |-> HM(15, 30), days |-> WeekDays]
      [] ex = BSE   -> [start |-> HM(9, 0),  end |-> HM(15, 30), days |-> WeekDays]
      [] ex = MCX   -> [start |-> HM(9, 0),  end |-> HM(23, 55), days |-> WeekDays]
      [] ex = INDEX -> [start |-> HM(0, 0),  end |-> HM(23, 59), days |-> 0..6]
      [] ex \in {IG, CAPITALCOM, SPREADEX, TVC, OANDA, NSEIX, SKILLING, SZSE, VANTAGE}
                    -> [start |-> HM(0, 0),  end |-> HM(23, 59), days |-> WeekDays]
      [] OTHER      -> [start |-> HM(9, 0),  end |-> HM(17, 0),  days |-> WeekDays]

SecondsPerDay == 24 * 3600

\* mutant: the days of the venue are not looked at
is_market_open_anyday(exchange, t) ==
    LET current_time == t % SecondsPerDay
        timings      == MARKET_TIMINGS(upper(exchange))
    IN  IF timings.start < timings.end
        THEN timings.start <= current_time /\ current_time <= timings.end
        ELSE current_time >= timings.start \/ current_time <= timings.end

\* is_market_open(exchange) evaluated at wall-clock instant t
is_market_open(exchange, t) ==
    LET current_day  == (t \div SecondsPerDay) % 7
        current_time == t % SecondsPerDay
        timings      == MARKET_TIMINGS(upper(exchange))
    IN  IF current_day \notin timings.days THEN FALSE
        ELSE IF timings.start < timings.end
             THEN timings.start <= current_time /\ current_time <= timings.end
             ELSE current_time >= timings.start \/ current_time <= timings.end

(***************************************************************************)
(* Configuration (environment defaults) and float values                   *)
(***************************************************************************)
PAUSE_BETWEEN_SYMBOLS == 5
SLEEP_BETWEEN_SCANS == 300
\* 25 * 60 seconds
COOLDOWN_SECONDS == 25 * 60
\* len(df_5) < 10
MIN_BARS == 10
\* N_BARS = 96
N_BARS == 96

\* float NaN: an integer no price, ATR value or level of the model takes
NaN == 0 - 1000

\* float comparisons: any comparison with NaN is False
Gt(a, b) == a # NaN /\ b # NaN /\ a > b
Lt(a, b) == a # NaN /\ b # NaN /\ a < b

\* the watch-list loaded from the CSV (column SYMBOL)
symbols ==
    << <<"N","S","E",":","A">>, <<"b",".","b","o">>, <<" ">> >>

\* wall-clock instants at which the scanner is started:
\* Monday 09:14:55 IST and Saturday 12:00:00 IST
StartClocks == {HM(9, 14) + 55, 5 * SecondsPerDay + HM(12, 0)}

VARIABLES
    pc,               \* control point of the scan thread
    clock,            \* wall clock, seconds since Monday 00:00:00 IST
    round,            \* scan_loop: number of rounds started
    idx,              \* scan_loop: enumerate index of the symbol being scanned
    processed,        \* scan_loop: iterations completed this round
    tv,               \* mode of the provider handle
    initCalls,        \* number of init_tv calls
    authPending,      \* the provider signalled an expired session, no init_tv since
    creds,            \* BOT_TOKEN and CHAT_ID are both set
    raw_symbol,       \* calculate_signals: its argument
    parsed,           \* calculate_signals: what parse_symbol returned
    ex_token,         \* calculate_signals: resolved venue
    sym_token,        \* calculate_signals: instrument
    interval,         \* try_get_hist: interval of the running fetch
    tried,            \* try_get_hist: candidate list
    k,                \* try_get_hist: candidates attempted so far
    last_exc,         \* try_get_hist: last exception caught
    lastOut,          \* try_get_hist: what the latest candidate did
    anyRaised,        \* try_get_hist: some candidate raised
    fstatus,          \* how the latest try_get_hist call ended
    got5,             \* df_5 is a non-empty frame
    used_ex,          \* venue returned with df_5
    got30,            \* df_30 is a non-empty frame
    used_ex30,        \* venue returned with df_30 (the `_` of the call)
    calls,            \* tvc.get_hist calls issued since the last time.sleep
    df,               \* merged 5-minute frame
    buy,              \* calculate_signals: buy condition
    sell,             \* calculate_signals: sell condition
    last_signal_sent, \* dedup map: key -> instant of the last emission
    msg,              \* the message composed by the running call
    tgResult,         \* outcome of send_telegram_message in the running call
    skipped,          \* the running call logged "Duplicate skipped"
    csStatus,         \* how the latest calculate_signals call ended
    sent,             \* the posts issued to the Telegram API
    detLog,           \* dedup specification: the detections so far
    st_df,            \* compute_supertrend: df_local with the atr column
    st_i,             \* compute_supertrend: rows done by the loop
    final_upper,      \* compute_supertrend: final_upper, doubled
    final_lower,      \* compute_supertrend: final_lower, doubled
    sup,              \* compute_supertrend: sup, doubled
    dirn              \* compute_supertrend: dirn

loopVars == <<round, idx, processed>>
sessVars == <<tv, initCalls, creds>>
symVars  == <<raw_symbol, parsed, ex_token, sym_token>>
tryVars  == <<interval, tried, k, last_exc, lastOut, anyRaised, fstatus>>
resVars  == <<got5, used_ex, got30, used_ex30>>
sigVars  == <<df, buy, sell>>
outVars  == <<msg, tgResult, sent>>
stVars   == <<st_df, st_i, final_upper, final_lower, sup, dirn>>

vars == <<pc, clock, loopVars, sessVars, authPending, symVars, tryVars, resVars,
          calls, sigVars, last_signal_sent, outVars, skipped, csStatus,
          detLog, stVars>>

NoMsg == [dir |-> "NONE"]

\* parse_symbol has not returned yet
NoParse == <<>>

(***************************************************************************)
(* Merged 5-minute frames: rows of close, ema20, supertrend, atr           *)
(***************************************************************************)
Prices == 1..MaxPrice
IndVals == {NaN, 1, MaxPrice}
AtrVals == {NaN} \cup (1..MaxAtr)

\* a row before the first 30-minute bar: merge_asof leaves the indicators NaN
WarmUpRow == [close |-> 1, ema20 |-> NaN, supertrend |-> NaN, atr |-> NaN]

CoreRows == [close : Prices, ema20 : IndVals, supertrend : IndVals]

\* pad warm-up rows followed by the rows of tail, all with ATR a
Frame(tail, a, pad) ==
    [i \in 1..(pad + Len(tail)) |->
        IF i <= pad THEN WarmUpRow
        ELSE [close      |-> tail[i - pad].close,
              ema20      |-> tail[i - pad].ema20,
              supertrend |-> tail[i - pad].supertrend,
              atr        |-> a]]

\* rows of the frames a scan draws: both indicators at one level, closes at
\* the extremes
ScanRows ==
    {r \in CoreRows : r.close \in {1, MaxPrice} /\ r.ema20 = r.supertrend
                      /\ r.ema20 # NaN}

\* the tails of the frames a scan draws: the conditions read the last two
\* rows, the rows before them repeat the first of the two
ScanTails ==
    {t \in [1..TailLen -> ScanRows] :
        /\ t[TailLen].ema20 = t[TailLen - 1].ema20
        /\ \A i \in 1..(TailLen - 1) : t[i] = t[TailLen - 1]}

\* frames of MIN_BARS rows, and of MIN_BARS - 1 rows
FullPad == MIN_BARS - TailLen
ShortPad == MIN_BARS - 1 - TailLen

\* the tail of the short frame of a scan
ShortTail ==
    [i \in 1..TailLen |-> [close |-> MaxPrice, ema20 |-> 1, supertrend |-> 1]]

\* the frames a scan draws, all with ATR 1: MIN_BARS rows, and one frame of
\* MIN_BARS - 1 rows
ScanSeries ==
    {Frame(t, 1, FullPad) : t \in ScanTails} \cup {Frame(ShortTail, 1, ShortPad)}

\* the frames the signal stage is explored on
Series(atrs) ==
    {Frame(t, a, FullPad) : t \in [1..TailLen -> CoreRows], a \in atrs}
        \cup {Frame(t, 1, ShortPad) : t \in ScanTails}

(***************************************************************************)
(* Signal conditions, levels and dedup                                     *)
(***************************************************************************)
\* close > ema and close > supertrend at row i
BothAbove(d, i) ==
    Gt(d[i].close, d[i].ema20) /\ Gt(d[i].close, d[i].supertrend)

\* close < ema and close < supertrend at row i
BothBelow(d, i) ==
    Lt(d[i].close, d[i].ema20) /\ Lt(d[i].close, d[i].supertrend)

\* mutant: the buy condition without the test of the previous candle
buy_at_level(d, i) == BothAbove(d, i)

\* the buy condition with row i as the latest candle
buy_at(d, i) == BothAbove(d, i) /\ ~BothAbove(d, i - 1)

\* the sell condition with row i as the latest candle
sell_at(d, i) == BothBelow(d, i) /\ ~BothBelow(d, i - 1)

\* the row calculate_signals evaluates: iloc[-1]
signal_row(d) == Len(d)

\* twice the multipliers of atr_now: 4.5 and 1.5
TP_MULT2 == 9
SL_MULT2 == 3

\* mutant: take-profit at 3.0 ATR
tp2_three(dir, close_now, atr_now) ==
    IF atr_now = NaN \/ close_now = NaN THEN NaN
    ELSE IF dir = "BUY" THEN 2 * close_now + 6 * atr_now
                        ELSE 2 * close_now - 6 * atr_now

\* twice the take-profit and stop-loss levels
tp2(dir, close_now, atr_now) ==
    IF atr_now = NaN \/ close_now = NaN THEN NaN
    ELSE IF dir = "BUY" THEN 2 * close_now + TP_MULT2 * atr_now
                        ELSE 2 * close_now - TP_MULT2 * atr_now

sl2(dir, close_now, atr_now) ==
    IF atr_now = NaN \/ close_now = NaN THEN NaN
    ELSE IF dir = "BUY" THEN 2 * close_now - SL_MULT2 * atr_now
                        ELSE 2 * close_now + SL_MULT2 * atr_now

\* f"{used_ex or ex_token}:{sym_token}"
dedup_key(uex, ex, sym) == (IF uex # None THEN uex ELSE ex) \o <<":">> \o sym

\* key in last_signal_sent and (now - last_signal_sent[key]) < 25 * 60
is_duplicate(lss, key, now) ==
    key \in DOMAIN lss /\ now - lss[key] < COOLDOWN_SECONDS

\* mutant: the map is replaced by one that holds the new entry only
record_sent_fresh(lss, key, now) == [x \in {key} |-> now]

\* last_signal_sent[key] = now
record_sent(lss, key, now) ==
    [x \in DOMAIN lss \cup {key} |-> IF x = key THEN now ELSE lss[x]]

(***************************************************************************)
(* try_get_hist                                                            *)
(***************************************************************************)
\* mutant: the fallbacks are appended without skipping the primary
candidates_nodedup(exchange) ==
    LET first == IF exchange # None THEN <<exchange>> ELSE <<>>
    IN  Append(first \o FALLBACK_EXCHANGES, None)

\* the candidate list: primary, fallbacks not yet listed, None
candidates(exchange) ==
    LET first == IF exchange # None THEN <<exchange>> ELSE <<>>
        NotListed(e) == \A i \in 1..Len(first) : first[i] # e
    IN  Append(first \o SelectSeq(FALLBACK_EXCHANGES, NotListed), None)

\* what one get_hist call can do
Outcomes == {"bars", "empty", "error", "auth", "TypeError"}

\* what the inner try yields: a TypeError of the n_bars call is retried with
\* n=; a TypeError of the retry is an exception like any other
after_retry(o1, o2) ==
    IF o1 # "TypeError" THEN o1
    ELSE IF o2 = "TypeError" THEN "error" ELSE o2

\* `if df is not None and not df.empty: return df, ex`
returns_frame(o) == o = "bars"

\* last_exc after an iteration that did not return
exc_after(exc, o) == IF o = "empty" THEN exc ELSE o

\* mutant: the last error is only logged, the loop's end returns None, None
raises_after_loop_never(exc) == FALSE

\* after the loop: `if last_exc: raise last_exc`, else `return None, None`
raises_after_loop(exc) == exc # "none"

\* the loop from candidate n + 1 on, under the outcomes out of the candidates
RECURSIVE try_loop(_, _, _, _)
try_loop(tr, out, n, exc) ==
    IF n = Len(tr)
    THEN [status |-> IF raises_after_loop(exc) THEN "raised" ELSE "returned",
          ok |-> FALSE, ex |-> None, n |-> n, exc |-> exc]
    ELSE IF returns_frame(out[n + 1])
         THEN [status |-> "returned", ok |-> TRUE, ex |-> tr[n + 1],
               n |-> n + 1, exc |-> exc]
         ELSE try_loop(tr, out, n + 1, exc_after(exc, out[n + 1]))

\* try_get_hist(tv, symbol, exchange, interval, n_bars)
try_get_hist(exchange, out) == try_loop(candidates(exchange), out, 0, "none")

\* a call explored on its own, one iteration of `for ex in tried`
TryAttempt ==
    /\ pc = "try"
    /\ k < Len(tried)
    /\ \E o1 \in Outcomes, o2 \in Outcomes :
         LET o == after_retry(o1, o2) IN
         /\ o1 # "TypeError" => o2 = o1
         /\ authPending' = (authPending \/ o = "auth")
         /\ k' = k + 1
         /\ calls' = calls + (IF o1 = "TypeError" THEN 2 ELSE 1)
         /\ lastOut' = o
         /\ anyRaised' = (anyRaised \/ o \in {"error", "auth"})
         /\ IF returns_frame(o)
            THEN /\ fstatus' = "returned"
                 /\ got5' = TRUE
                 /\ used_ex' = tried[k + 1]
                 /\ pc' = "done"
                 /\ UNCHANGED last_exc
            ELSE /\ last_exc' = exc_after(last_exc, o)
                 /\ UNCHANGED <<pc, fstatus, got5, used_ex>>
    /\ UNCHANGED stVars
    /\ UNCHANGED <<clock, loopVars, sessVars, symVars, interval, tried, got30,
                   used_ex30, sigVars, last_signal_sent, outVars, skipped,
                   csStatus, detLog>>

\* a call explored on its own, the loop is over without a non-empty frame
TryFinish ==
    /\ pc = "try"
    /\ k = Len(tried)
    /\ fstatus' = IF raises_after_loop(last_exc) THEN "raised" ELSE "returned"
    /\ pc' = "done"
    /\ UNCHANGED <<stVars, calls>>
    /\ UNCHANGED <<clock, loopVars, sessVars, authPending, symVars, interval,
                   tried, k, last_exc, lastOut, anyRaised, resVars, sigVars,
                   last_signal_sent, outVars, skipped, csStatus, detLog>>

(***************************************************************************)
(* compute_supertrend                                                      *)
(***************************************************************************)
\* multiplier=3.0
ST_MULT == 3

\* the bars of df_local: low <= close <= high
StBars ==
    {b \in [high : 1..MaxHigh, low : 1..MaxHigh, close : 1..MaxHigh] :
        b.low <= b.close /\ b.close <= b.high}

\* the column AverageTrueRange yields for n rows: a on every row, undefined
\* on the first row if warm
StAtr(n, a, warm) == [i \in 1..n |-> IF warm /\ i = 1 THEN NaN ELSE a]

\* df_local with the atr column, for bars bs
StFrame(bs, a, warm) ==
    [i \in 1..Len(bs) |->
        [high |-> bs[i].high, low |-> bs[i].low, close |-> bs[i].close,
         atr |-> StAtr(Len(bs), a, warm)[i]]]

\* the frames of n rows
StFrames(n) ==
    {StFrame(bs, a, warm) :
        bs \in [1..n -> StBars], a \in (0..MaxAtr) \cup {NaN}, warm \in BOOLEAN}

\* upper = hl2 + multiplier * atr and lower = hl2 - multiplier * atr, doubled
upper2(row) ==
    IF row.atr = NaN THEN NaN ELSE row.high + row.low + 2 * ST_MULT * row.atr

lower2(row) ==
    IF row.atr = NaN THEN NaN ELSE row.high + row.low - 2 * ST_MULT * row.atr

\* mutant: the seed of an uptrend is the lower band
st_first_lower(row) ==
    [fu |-> upper2(row), fl |-> lower2(row), sup |-> lower2(row), dirn |-> 1]

\* the iteration i == 0
st_first(row) ==
    [fu |-> upper2(row), fl |-> lower2(row), sup |-> upper2(row), dirn |-> 1]

\* mutant: the close is tested against the bands of the same bar
st_next_current(p, close_prev, row) ==
    LET u  == upper2(row)
        l  == lower2(row)
        fu == IF Lt(u, p.fu) \/ Gt(2 * close_prev, p.fu) THEN u ELSE p.fu
        fl == IF Gt(l, p.fl) \/ Lt(2 * close_prev, p.fl) THEN l ELSE p.fl
    IN  IF Gt(2 * row.close, fu)
        THEN [fu |-> fu, fl |-> fl, sup |-> fl, dirn |-> 1]
        ELSE IF Lt(2 * row.close, fl)
             THEN [fu |-> fu, fl |-> fl, sup |-> fu, dirn |-> 0 - 1]
             ELSE [fu |-> fu, fl |-> fl, sup |-> p.sup, dirn |-> p.dirn]

\* an iteration i > 0: p holds final_upper, final_lower, sup and dirn at
\* i - 1, close_prev is close at i - 1, row is row i
st_next(p, close_prev, row) ==
    LET u  == upper2(row)
        l  == lower2(row)
        fu == IF Lt(u, p.fu) \/ Gt(2 * close_prev, p.fu) THEN u ELSE p.fu
        fl == IF Gt(l, p.fl) \/ Lt(2 * close_prev, p.fl) THEN l ELSE p.fl
    IN  IF Gt(2 * row.close, p.fu)
        THEN [fu |-> fu, fl |-> fl, sup |-> fl, dirn |-> 1]
        ELSE IF Lt(2 * row.close, p.fl)
             THEN [fu |-> fu, fl |-> fl, sup |-> fu, dirn |-> 0 - 1]
             ELSE [fu |-> fu, fl |-> fl, sup |-> p.sup, dirn |-> p.dirn]

\* for i in range(len(df_local)): one iteration
StLoop ==
    /\ pc = "st_loop"
    /\ st_i < Len(st_df)
    /\ LET i == st_i + 1
           r == IF i = 1
                THEN st_first(st_df[1])
                ELSE st_next([fu |-> final_upper[i - 1], fl |-> final_lower[i - 1],
                              sup |-> sup[i - 1], dirn |-> dirn[i - 1]],
                             st_df[i - 1].close, st_df[i])
       IN  /\ st_i' = i
           /\ final_upper' = Append(final_upper, r.fu)
           /\ final_lower' = Append(final_lower, r.fl)
           /\ sup' = Append(sup, r.sup)
           /\ dirn' = Append(dirn, r.dirn)
    /\ UNCHANGED <<pc, clock, loopVars, sessVars, authPending, symVars, tryVars,
                   resVars, calls, sigVars, last_signal_sent, outVars, skipped,
                   csStatus, detLog, st_df>>

\* return sup, dirn
StReturn ==
    /\ pc = "st_loop"
    /\ st_i = Len(st_df)
    /\ pc' = "st_done"
    /\ UNCHANGED <<clock, loopVars, sessVars, authPending, symVars, tryVars,
                   resVars, calls, sigVars, last_signal_sent, outVars, skipped,
                   csStatus, detLog, stVars>>

(***************************************************************************)
(* init_tv                                                                 *)
(***************************************************************************)
\* cookies file, then login with TV_USERNAME/TV_PASSWORD, then nologin
init_tv_mode(cookiesOk, loginOk) ==
    IF cookiesOk THEN "cookies" ELSE IF loginOk THEN "login" ELSE "nologin"

\* the one call of init_tv, at import
InitTv ==
    /\ pc = "boot"
    /\ \E cookiesOk \in BOOLEAN, loginOk \in BOOLEAN :
         tv' = init_tv_mode(cookiesOk, loginOk)
    /\ initCalls' = initCalls + 1
    /\ authPending' = FALSE
    /\ pc' = "round_start"
    /\ UNCHANGED <<stVars, calls>>
    /\ UNCHANGED <<clock, loopVars, creds, symVars, tryVars, resVars, sigVars,
                   last_signal_sent, outVars, skipped, csStatus, detLog>>

(***************************************************************************)
(* calculate_signals                                                       *)
(***************************************************************************)
\* mutant: the handler logs and raises again
cs_except_reraise ==
    /\ csStatus' = "raised"
    /\ pc' = "pause"

\* mutant: the handler is around the whole for loop, an exception ends the
\* round
cs_except_ends_round ==
    /\ csStatus' = "caught"
    /\ pc' = "round_sleep"

\* mutant: after an exception the instrument is tried again at once
cs_except_retry ==
    /\ csStatus' = "caught"
    /\ pc' = "call"

\* except Exception as e: log.exception(...)
cs_except ==
    /\ csStatus' = "caught"
    /\ pc' = "pause"

\* a plain `return`
cs_return ==
    /\ csStatus' = "returned"
    /\ pc' = "pause"

\* mutant: the venue of parse_symbol is used as it is
resolve_as_parsed(raw) ==
    LET ret == parse_symbol(raw)
    IN  <<ret[1], strip(ret[2])>>

\* parse_symbol, `ex_token or "NSE"`, str(sym_token).strip()
resolve(raw) ==
    LET ret == parse_symbol(raw)
    IN  <<IF ret[1] # <<>> THEN ret[1] ELSE NSE, strip(ret[2])>>

\* scan_loop calls calculate_signals(sym): parse, empty check, market hours
\* check
CsParse ==
    /\ pc = "call"
    /\ parsed' = parse_symbol(raw_symbol)
    /\ LET r == resolve(raw_symbol)
       IN  /\ ex_token' = r[1]
           /\ sym_token' = r[2]
           /\ IF r[2] = <<>> \/ ~is_market_open(r[1], clock)
              THEN cs_return
              ELSE pc' = "fetch5" /\ csStatus' = "running"
    /\ UNCHANGED <<stVars, calls>>
    /\ UNCHANGED <<clock, loopVars, sessVars, authPending, tryVars, resVars,
                   raw_symbol, sigVars, last_signal_sent, outVars, skipped,
                   detLog>>

\* the outcomes of the candidates in a scan: candidate j returns bars (none
\* for j = 0) and the others all do f; j is one of the first MaxOk candidates
\* or the no-venue candidate
ScanOutcomes(tr) ==
    {[p \in 1..Len(tr) |-> IF p = j THEN "bars" ELSE f] :
        j \in (0..MaxOk) \cup {Len(tr)}, f \in {"empty", "error", "auth"}}

\* an expired session was signalled by a candidate that was attempted
auth_seen(out, n) == \E p \in 1..n : out[p] = "auth"

\* df_5, used_ex = try_get_hist(tv, sym_token, ex_token, in_5_minute, ...)
CsFetch5 ==
    /\ pc = "fetch5"
    /\ \E out \in ScanOutcomes(candidates(ex_token)) :
         LET r == try_get_hist(ex_token, out) IN
         /\ fstatus' = r.status
         /\ calls' = calls + r.n
         /\ authPending' = (authPending \/ auth_seen(out, r.n))
         /\ IF r.status = "raised"
            THEN cs_except /\ UNCHANGED <<got5, used_ex>>
            ELSE /\ got5' = r.ok
                 /\ used_ex' = r.ex
                 /\ pc' = "fetch30"
                 /\ UNCHANGED csStatus
    /\ UNCHANGED stVars
    /\ UNCHANGED <<clock, loopVars, sessVars, symVars, interval, tried, k,
                   last_exc, lastOut, anyRaised, got30, used_ex30, sigVars,
                   last_signal_sent, outVars, skipped, detLog>>

\* df_30, _ = try_get_hist(...in_30_minute...) and the check of both frames
CsFetch30 ==
    /\ pc = "fetch30"
    /\ \E out \in ScanOutcomes(candidates(ex_token)) :
         LET r == try_get_hist(ex_token, out) IN
         /\ fstatus' = r.status
         /\ calls' = calls + r.n
         /\ authPending' = (authPending \/ auth_seen(out, r.n))
         /\ got30' = (r.status = "returned" /\ r.ok)
         /\ used_ex30' = r.ex
         /\ IF r.status = "raised"
            THEN cs_except
            ELSE IF ~got5 \/ ~r.ok
                 THEN cs_return
                 ELSE pc' = "compute" /\ UNCHANGED csStatus
    /\ UNCHANGED stVars
    /\ UNCHANGED <<clock, loopVars, sessVars, symVars, interval, tried, k,
                   last_exc, lastOut, anyRaised, got5, used_ex, sigVars,
                   last_signal_sent, outVars, skipped, detLog>>

\* normalisation, indicators and merge_asof: the merged frame, or an
\* exception of the frame and indicator libraries
CsCompute ==
    /\ pc = "compute"
    /\ \/ \E d \in ScanSeries : df' = d /\ pc' = "detect" /\ UNCHANGED csStatus
       \/ cs_except /\ UNCHANGED df
    /\ UNCHANGED <<stVars, calls>>
    /\ UNCHANGED <<clock, loopVars, sessVars, authPending, symVars, tryVars,
                   resVars, buy, sell, last_signal_sent, outVars, skipped,
                   detLog>>

\* length check and the conditions on the latest 5-minute candle
CsDetect ==
    /\ pc = "detect"
    /\ IF Len(df) < MIN_BARS
       THEN cs_return /\ UNCHANGED <<buy, sell>>
       ELSE LET b == buy_at(df, signal_row(df))
                s == sell_at(df, signal_row(df))
            IN  /\ buy' = b
                /\ sell' = s
                /\ IF ~(b \/ s)
                   THEN cs_return
                   ELSE pc' = "dedup" /\ UNCHANGED csStatus
    /\ UNCHANGED <<stVars, calls>>
    /\ UNCHANGED <<clock, loopVars, sessVars, authPending, symVars, tryVars,
                   resVars, df, last_signal_sent, outVars, skipped, detLog>>

\* mutant: a suppressed detection refreshes the recorded timestamp
CsDedup_refresh ==
    /\ pc = "dedup"
    /\ LET key == dedup_key(used_ex, ex_token, sym_token)
           now == clock
       IN  /\ last_signal_sent' = record_sent(last_signal_sent, key, now)
           /\ IF is_duplicate(last_signal_sent, key, now)
              THEN skipped' = TRUE /\ cs_return
              ELSE pc' = "send" /\ UNCHANGED <<skipped, csStatus>>
    /\ UNCHANGED <<stVars, calls>>
    /\ UNCHANGED <<clock, loopVars, sessVars, authPending, symVars, tryVars,
                   resVars, sigVars, outVars, detLog>>

\* time and duplicate filter
CsDedup ==
    /\ pc = "dedup"
    /\ LET key == dedup_key(used_ex, ex_token, sym_token)
           now == clock
       IN  IF is_duplicate(last_signal_sent, key, now)
           THEN /\ skipped' = TRUE
                /\ cs_return
                /\ UNCHANGED last_signal_sent
           ELSE /\ last_signal_sent' = record_sent(last_signal_sent, key, now)
                /\ pc' = "send"
                /\ UNCHANGED <<skipped, csStatus>>
    /\ UNCHANGED <<stVars, calls>>
    /\ UNCHANGED <<clock, loopVars, sessVars, authPending, symVars, tryVars,
                   resVars, sigVars, outVars, detLog>>

\* the message of the BUY or SELL branch
compose(d, isBuy, display) ==
    LET dir == IF isBuy THEN "BUY" ELSE "SELL"
        row == d[signal_row(d)]
    IN  [dir    |-> dir,
         symbol |-> display,
         price  |-> row.close,
         tp2    |-> tp2(dir, row.close, row.atr),
         sl2    |-> sl2(dir, row.close, row.atr)]

\* what requests.post can do when the credentials are set
PostResults == {"ok", "http_error", "exception"}

\* message composition and send_telegram_message
CsSend ==
    /\ pc = "send"
    /\ msg' = compose(df, buy, dedup_key(used_ex, ex_token, sym_token))
    /\ IF ~creds
       THEN tgResult' = "nocreds" /\ UNCHANGED sent
       ELSE /\ tgResult' \in PostResults
            /\ sent' = sent \cup {[entry |-> idx, symbol |-> msg'.symbol,
                                    at |-> clock]}
    /\ cs_return
    /\ UNCHANGED <<stVars, calls>>
    /\ UNCHANGED <<clock, loopVars, sessVars, authPending, symVars, tryVars,
                   resVars, sigVars, last_signal_sent, skipped, detLog>>

(***************************************************************************)
(* scan_loop                                                               *)
(***************************************************************************)
\* while True: a round starts
ScanStart ==
    /\ pc = "round_start"
    /\ round < MaxRounds
    /\ round' = round + 1
    /\ idx' = 1
    /\ raw_symbol' = symbols[1]
    /\ processed' = <<>>
    /\ pc' = "call"
    /\ UNCHANGED <<stVars, calls>>
    /\ UNCHANGED <<clock, sessVars, authPending, parsed, ex_token, sym_token,
                   tryVars, resVars,
                   sigVars, last_signal_sent, outVars, skipped, csStatus,
                   detLog>>

\* the symbol after entry i, or the end of the round
next_entry(i) == IF i < Len(symbols) THEN i + 1 ELSE 0

\* time.sleep(PAUSE_BETWEEN_SYMBOLS), then the next symbol or the round's end
ScanPause ==
    /\ pc = "pause"
    /\ clock' = clock + PAUSE_BETWEEN_SYMBOLS
    /\ IF next_entry(idx) # 0
       THEN /\ idx' = next_entry(idx)
            /\ raw_symbol' = symbols[next_entry(idx)]
            /\ pc' = "call"
       ELSE /\ pc' = "round_sleep"
            /\ raw_symbol' = <<>>
            /\ UNCHANGED idx
    /\ parsed' = NoParse
    /\ used_ex30' = None
    /\ calls' = 0
    \* the locals of the finished call are gone
    /\ ex_token' = None
    /\ sym_token' = <<>>
    /\ interval' = "-"
    /\ tried' = <<>>
    /\ k' = 0
    /\ last_exc' = "none"
    /\ lastOut' = "-"
    /\ anyRaised' = FALSE
    /\ fstatus' = "-"
    /\ got5' = FALSE
    /\ used_ex' = None
    /\ got30' = FALSE
    /\ df' = <<>>
    /\ buy' = FALSE
    /\ sell' = FALSE
    /\ msg' = NoMsg
    /\ tgResult' = "-"
    /\ skipped' = FALSE
    /\ processed' = Append(processed, [entry |-> idx, status |-> csStatus])
    /\ UNCHANGED stVars
    /\ UNCHANGED <<round, sessVars, authPending, last_signal_sent, sent,
                   csStatus, detLog>>

\* mutant: the next round starts without the sleep between rounds
ScanSleep_none ==
    /\ pc = "round_sleep"
    /\ pc' = "round_start"
    /\ UNCHANGED <<clock, loopVars, sessVars, authPending, symVars, tryVars,
                   resVars, calls, sigVars, last_signal_sent, outVars, skipped,
                   csStatus, detLog, stVars>>

\* time.sleep(SLEEP_BETWEEN_SCANS)
ScanSleep ==
    /\ pc = "round_sleep"
    /\ clock' = clock + SLEEP_BETWEEN_SCANS
    /\ pc' = "round_start"
    /\ UNCHANGED <<stVars, calls>>
    /\ UNCHANGED <<loopVars, sessVars, authPending, symVars, tryVars, resVars,
                   sigVars, last_signal_sent, outVars, skipped, csStatus,
                   detLog>>

(***************************************************************************)
(* The scanner: init_tv at import, then scan_loop                          *)
(***************************************************************************)
\* compute_supertrend is not running
StIdle ==
    /\ st_df = <<>>
    /\ st_i = 0
    /\ final_upper = <<>>
    /\ final_lower = <<>>
    /\ sup = <<>>
    /\ dirn = <<>>

\* calculate_signals and try_get_hist have no locals yet
NoLocals ==
    /\ parsed = NoParse
    /\ used_ex30 = None
    /\ ex_token = None
    /\ sym_token = <<>>
    /\ interval = "-"
    /\ tried = <<>>
    /\ k = 0
    /\ last_exc = "none"
    /\ lastOut = "-"
    /\ anyRaised = FALSE
    /\ fstatus = "-"
    /\ got5 = FALSE
    /\ used_ex = None
    /\ got30 = FALSE
    /\ df = <<>>
    /\ buy = FALSE
    /\ sell = FALSE
    /\ msg = NoMsg
    /\ tgResult = "-"
    /\ skipped = FALSE
    /\ csStatus = "-"

\* no call is running: calculate_signals and try_get_hist have no locals
NoCall ==
    /\ raw_symbol = <<>>
    /\ NoLocals

Init ==
    /\ pc = "boot"
    /\ clock \in StartClocks
    /\ round = 0
    /\ idx = 0
    /\ processed = <<>>
    /\ tv = "unset"
    /\ initCalls = 0
    /\ authPending = FALSE
    /\ creds \in BOOLEAN
    /\ NoCall
    /\ calls = 0
    /\ StIdle
    /\ last_signal_sent = <<>>
    /\ sent = {}
    /\ detLog = <<>>

Next ==
    \/ InitTv
    \/ ScanStart
    \/ CsParse
    \/ CsFetch5
    \/ CsFetch30
    \/ CsCompute
    \/ CsDetect
    \/ CsDedup
    \/ CsSend
    \/ ScanPause
    \/ ScanSleep

Spec == Init /\ [][Next]_vars

(***************************************************************************)
(* try_get_hist on its own: any primary venue, any outcome per candidate   *)
(***************************************************************************)
\* a running scan, between two calls
Scanning ==
    /\ clock = HM(10, 0)
    /\ round = 1
    /\ idx = 1
    /\ processed = <<>>
    /\ tv = "cookies"
    /\ initCalls = 1
    /\ authPending = FALSE
    /\ creds = TRUE
    /\ last_signal_sent = <<>>
    /\ sent = {}
    /\ detLog = <<>>
    /\ calls = 0

PrimaryVenues == {NSE, BSE, NSEIX, <<"X","Y","Z">>, None}

InitFetch ==
    /\ Scanning
    /\ StIdle
    /\ pc = "try"
    /\ ex_token \in PrimaryVenues
    /\ raw_symbol = <<"A">>
    /\ parsed = <<ex_token, <<"A">>>>
    /\ sym_token = <<"A">>
    /\ used_ex30 = None
    /\ interval = "iso"
    /\ tried = candidates(ex_token)
    /\ k = 0
    /\ last_exc = "none"
    /\ lastOut = "-"
    /\ anyRaised = FALSE
    /\ fstatus = "running"
    /\ got5 = FALSE
    /\ used_ex = None
    /\ got30 = FALSE
    /\ df = <<>>
    /\ buy = FALSE
    /\ sell = FALSE
    /\ msg = NoMsg
    /\ tgResult = "-"
    /\ skipped = FALSE
    /\ csStatus = "running"

NextFetch ==
    \/ TryAttempt
    \/ TryFinish

SpecFetch == InitFetch /\ [][NextFetch]_vars

(***************************************************************************)
(* The signal stage on its own: every bounded merged frame                 *)
(***************************************************************************)
\* calculate_signals has both frames and is about to evaluate the merge
Merged ==
    /\ raw_symbol = <<"N", "S", "E", ":", "A">>
    /\ parsed = <<NSE, <<"A">>>>
    /\ ex_token = NSE
    /\ sym_token = <<"A">>
    /\ used_ex30 = NSE
    /\ interval = "-"
    /\ tried = <<>>
    /\ k = 0
    /\ last_exc = "none"
    /\ lastOut = "-"
    /\ anyRaised = FALSE
    /\ fstatus = "returned"
    /\ got5 = TRUE
    /\ got30 = TRUE
    /\ buy = FALSE
    /\ sell = FALSE
    /\ msg = NoMsg
    /\ tgResult = "-"
    /\ skipped = FALSE
    /\ csStatus = "running"

InitSig ==
    /\ Scanning
    /\ StIdle
    /\ Merged
    /\ pc = "detect"
    /\ used_ex = NSE
    /\ df \in Series(AtrVals)

NextSig ==
    \/ CsDetect
    \/ CsDedup
    \/ CsSend

SpecSig == InitSig /\ [][NextSig]_vars

(***************************************************************************)
(* The dedup filter over a sequence of detections at non-decreasing times  *)
(***************************************************************************)
\* wall-clock time between two detections: 0, 10, 15 or 20 minutes
Deltas == {0, 10 * 60, 15 * 60, 20 * 60}

\* frames whose latest candle is a buy or a sell
EdgeSeries ==
    {d \in ScanSeries :
        /\ Len(d) >= MIN_BARS
        /\ buy_at(d, signal_row(d)) \/ sell_at(d, signal_row(d))}

InitDedup ==
    /\ Scanning
    /\ StIdle
    /\ NoCall
    /\ pc = "idle"

\* after delta seconds a call of calculate_signals reaches the signal stage
\* with a frame that has an edge
DedupArrive ==
    /\ pc = "idle"
    /\ Len(detLog) < MaxDet
    /\ \E delta \in Deltas : clock' = clock + delta
    /\ raw_symbol' = <<"N", "S", "E", ":", "A">>
    /\ parsed' = <<NSE, <<"A">>>>
    /\ ex_token' = NSE
    /\ sym_token' = <<"A">>
    /\ used_ex' \in {NSE, BSE}
    /\ used_ex30' = NSE
    /\ got5' = TRUE
    /\ got30' = TRUE
    /\ fstatus' = "returned"
    /\ df' \in EdgeSeries
    /\ csStatus' = "running"
    /\ pc' = "detect"
    /\ UNCHANGED <<stVars, calls>>
    /\ UNCHANGED <<loopVars, sessVars, authPending, interval, tried, k,
                   last_exc, lastOut, anyRaised, buy, sell, last_signal_sent,
                   outVars, skipped, detLog>>

\* the call is over: what it did is appended to the log of detections
DedupObserve ==
    /\ pc = "pause"
    /\ detLog' = Append(detLog,
                        [key     |-> dedup_key(used_ex, ex_token, sym_token),
                         at      |-> clock,
                         dir     |-> IF buy THEN "BUY" ELSE "SELL",
                         emitted |-> msg # NoMsg])
    /\ pc' = "idle"
    /\ raw_symbol' = <<>>
    /\ parsed' = NoParse
    /\ used_ex30' = None
    /\ ex_token' = None
    /\ sym_token' = <<>>
    /\ fstatus' = "-"
    /\ got5' = FALSE
    /\ used_ex' = None
    /\ got30' = FALSE
    /\ df' = <<>>
    /\ buy' = FALSE
    /\ sell' = FALSE
    /\ msg' = NoMsg
    /\ tgResult' = "-"
    /\ skipped' = FALSE
    /\ csStatus' = "-"
    /\ UNCHANGED <<stVars, calls>>
    /\ UNCHANGED <<clock, loopVars, sessVars, authPending, interval, tried, k,
                   last_exc, lastOut, anyRaised, last_signal_sent, sent>>

NextDedup ==
    \/ DedupArrive
    \/ CsDetect
    \/ CsDedup
    \/ CsSend
    \/ DedupObserve

SpecDedup == InitDedup /\ [][NextDedup]_vars

(***************************************************************************)
(* compute_supertrend on its own: every bounded frame                      *)
(***************************************************************************)
InitST ==
    /\ Scanning
    /\ Merged
    /\ used_ex = NSE
    /\ df = <<>>
    /\ pc = "st_loop"
    /\ \E n \in 0..MaxBars : st_df \in StFrames(n)
    /\ st_i = 0
    /\ final_upper = <<>>
    /\ final_lower = <<>>
    /\ sup = <<>>
    /\ dirn = <<>>

NextST ==
    \/ StLoop
    \/ StReturn

SpecST == InitST /\ [][NextST]_vars

(***************************************************************************)
(* parse_symbol and the head of calculate_signals: every bounded string    *)
(***************************************************************************)
\* the characters of the raw strings
RawChars == {"B", "S", "E", "o", "n", ".", "-", ":", " "}

\* the raw strings of up to n characters
RawStrings(n) == UNION {[1..m -> RawChars] : m \in 0..n}

InitParse ==
    /\ Scanning
    /\ StIdle
    /\ NoLocals
    /\ raw_symbol \in RawStrings(MaxRaw)
    /\ pc = "call"

NextParse == CsParse

SpecParse == InitParse /\ [][NextParse]_vars

(***************************************************************************)
(* Properties                                                              *)
(***************************************************************************)
MaxOf(S) == CHOOSE m \in S : \A x \in S : x <= m

\* the earlier detections of the key of detection j that were emitted
EmittedBefore(j) ==
    {i \in 1..(j - 1) : detLog[i].key = detLog[j].key /\ detLog[i].emitted}

\* C1: a detection is emitted iff its key has no earlier emission or the last
\* emission of the key is at least 25 minutes old; suppressed detections do
\* not move the recorded timestamp, which is the instant of the key's last
\* emission.
C1_CooldownFromLastEmission ==
    /\ \A j \in 1..Len(detLog) :
          detLog[j].emitted <=>
             \/ EmittedBefore(j) = {}
             \/ detLog[j].at - detLog[MaxOf(EmittedBefore(j))].at >= 25 * 60
    /\ pc = "idle" =>
          \A j \in 1..Len(detLog) :
             LET E == EmittedBefore(j) \cup (IF detLog[j].emitted THEN {j} ELSE {})
                 later == {i \in (j + 1)..Len(detLog) : detLog[i].key = detLog[j].key}
             IN  later = {} =>
                    IF E = {} THEN detLog[j].key \notin DOMAIN last_signal_sent
                    ELSE /\ detLog[j].key \in DOMAIN last_signal_sent
                         /\ last_signal_sent[detLog[j].key] = detLog[MaxOf(E)].at

\* C1 witness: emitted at t0, suppressed (other direction) at t0 + 10 min,
\* emitted at t0 + 30 min, all for one key
C1_Scenario ==
    /\ Len(detLog) >= 3
    /\ detLog[1].emitted
    /\ detLog[2].key = detLog[1].key
    /\ detLog[2].at = detLog[1].at + 10 * 60
    /\ detLog[2].dir # detLog[1].dir
    /\ ~detLog[2].emitted
    /\ detLog[3].key = detLog[1].key
    /\ detLog[3].at = detLog[1].at + 30 * 60
    /\ detLog[3].emitted

\* C2: two posts for one watch-list entry are at least 25 minutes apart.
C2_AlertsCooldownApart ==
    \A a \in sent, b \in sent :
        (a.entry = b.entry /\ a.at < b.at) => b.at - a.at >= 25 * 60

\* the fallback venues other than the primary, in list order
OtherFallbacks ==
    LET NotPrimary(e) == e # ex_token
    IN  SelectSeq(FALLBACK_EXCHANGES, NotPrimary)

Failing == {"empty", "error", "auth"}

\* C3: the candidates are the primary, the other fallbacks in list order, the
\* no-venue attempt; while the loop runs every attempted candidate failed;
\* the call ends either with the first candidate that returned bars, whose
\* venue is returned, or after all candidates failed.
C3_FallbackOrder ==
    /\ ex_token # None => tried = <<ex_token>> \o OtherFallbacks \o <<None>>
    /\ pc = "try" =>
          /\ fstatus = "running"
          /\ ~got5
          /\ k > 0 => lastOut \in Failing
    /\ pc = "done" =>
          IF got5
          THEN lastOut = "bars" /\ fstatus = "returned" /\ used_ex = tried[k]
          ELSE lastOut \in Failing /\ k = Len(tried) /\ used_ex = None

\* C3 witness: primary BSE and NSE failed, one of them with an error, MCX
\* returned bars
C3_ThirdCandidateWins ==
    /\ pc = "done"
    /\ ex_token = BSE
    /\ k = 3
    /\ anyRaised
    /\ got5
    /\ used_ex = MCX

\* C4 as claimed: when every candidate fails the call returns NotFound as a
\* value, whether or not a candidate raised.
C4_NotFoundIsValue ==
    (pc = "done" /\ ~got5) => fstatus = "returned"

\* C4 amended: when every candidate fails, try_get_hist returns (None, None)
\* if no candidate raised, and raises the last error into its caller if at
\* least one candidate raised.
C4_RaisesLastError ==
    (pc = "done" /\ ~got5) =>
        /\ k = Len(tried)
        /\ fstatus = IF anyRaised THEN "raised" ELSE "returned"
        /\ anyRaised <=> last_exc \in {"error", "auth"}
        /\ lastOut \in {"error", "auth"} => last_exc = lastOut
        /\ used_ex = None

\* C4 witness: all candidates failed, one raised and the last one returned an
\* empty frame: the call raises
C4_RaisedAfterEmpty ==
    /\ pc = "done"
    /\ ~got5
    /\ k = Len(tried)
    /\ lastOut = "empty"
    /\ fstatus = "raised"

\* a fetch of the running call ended without a non-empty frame
NoData == fstatus \in {"raised", "returned"} /\ ~(got5 /\ got30)

\* C5: a call whose 5-minute or 30-minute fetch yields no frame ends without
\* raising into scan_loop and without composing or sending an alert.
C5_NoDataSkips ==
    (pc = "pause" /\ NoData) =>
        /\ csStatus \in {"returned", "caught"}
        /\ msg = NoMsg
        /\ tgResult = "-"
        /\ ~skipped

\* C5 witness: every candidate failed and one raised; the call logged the
\* error and returned
C5_RaisedAndCaught ==
    /\ pc = "pause"
    /\ NoData
    /\ fstatus = "raised"
    /\ csStatus = "caught"

\* calculate_signals has evaluated the conditions on a frame of enough rows
Detected == pc \in {"dedup", "send", "pause"} /\ Len(df) >= MIN_BARS

\* the rows of the last N_BARS that have a previous row
Window(d) ==
    {i \in 2..Len(d) : i > Len(d) - N_BARS}

EdgeAt(d, i) == buy_at(d, i) \/ sell_at(d, i)

\* C6: detection yields a signal iff some bar of the last N_BARS has an edge,
\* and the signal is that of the latest such bar.
C6_LatestEdgeInWindow ==
    Detected =>
        /\ (buy \/ sell) <=> \E i \in Window(df) : EdgeAt(df, i)
        /\ msg # NoMsg =>
              LET latest == MaxOf({i \in Window(df) : EdgeAt(df, i)})
              IN  /\ msg.price = df[latest].close
                  /\ msg.dir = IF buy_at(df, latest) THEN "BUY" ELSE "SELL"

\* C7: with the conditions of the latest candle evaluated at any row, a buy
\* at row i excludes a buy at row i - 1, and a sell at row i a sell at row
\* i - 1.
C7_EdgeDetector ==
    Len(df) >= 2 =>
        \* row 1 has no previous row: its conditions are the levels alone
        /\ buy_at(df, 2) => ~BothAbove(df, 1)
        /\ sell_at(df, 2) => ~BothBelow(df, 1)
        /\ \A i \in 3..Len(df) :
              /\ buy_at(df, i) => ~buy_at(df, i - 1)
              /\ sell_at(df, i) => ~sell_at(df, i - 1)

\* C7 witness: close is above both indicators on the last two rows; the first
\* of them is a buy, the last one, which calculate_signals evaluated, is not
C7_LevelHeldAfterEdge ==
    /\ pc = "pause"
    /\ Len(df) >= MIN_BARS
    /\ BothAbove(df, Len(df) - 1)
    /\ BothAbove(df, Len(df))
    /\ buy_at(df, Len(df) - 1)
    /\ ~buy

\* a message was composed from a frame whose last row has an ATR
Emitted == msg # NoMsg /\ df[Len(df)].atr # NaN

\* C8 as claimed: take-profit is 3.0 ATR from the close, stop-loss 1.5 ATR
\* (levels doubled).
C8_LevelsAtThreeAtr ==
    Emitted =>
        LET c == df[Len(df)].close
            a == df[Len(df)].atr
        IN  IF msg.dir = "BUY"
            THEN msg.tp2 = 2 * c + 6 * a /\ msg.sl2 = 2 * c - 3 * a
            ELSE msg.tp2 = 2 * c - 6 * a /\ msg.sl2 = 2 * c + 3 * a

\* C8 amended: for a BUY take-profit is close + 4.5 ATR and stop-loss is
\* close - 1.5 ATR of the latest candle, for a SELL close - 4.5 ATR and
\* close + 1.5 ATR (levels doubled: 9 and 3 half-ATRs).
C8_LevelsAtFourAndAHalfAtr ==
    Emitted =>
        LET c == df[Len(df)].close
            a == df[Len(df)].atr
        IN  /\ msg.price = c
            /\ msg.dir \in {"BUY", "SELL"}
            /\ IF msg.dir = "BUY"
               THEN msg.tp2 = 2 * c + 9 * a /\ msg.sl2 = 2 * c - 3 * a
               ELSE msg.tp2 = 2 * c - 9 * a /\ msg.sl2 = 2 * c + 3 * a

\* C8 witness: a SELL message from a candle closing at 1 with ATR 1:
\* take-profit 1 - 4.5, stop-loss 1 + 1.5
C8_SellEmitted ==
    /\ Emitted
    /\ msg.dir = "SELL"
    /\ msg.price = 1
    /\ df[Len(df)].atr = 1
    /\ msg.tp2 = 2 - 9
    /\ msg.sl2 = 2 + 3

\* C9: in a round the entries are processed once each, in list order, and the
\* round ends only after the last entry, whatever happened in the calls.
C9_EveryEntryOnceInOrder ==
    /\ \A j \in 1..Len(processed) : processed[j].entry = j
    /\ Len(processed) <= Len(symbols)
    /\ pc \in {"call", "fetch5", "fetch30", "compute", "detect", "dedup",
               "send", "pause"} => Len(processed) = idx - 1
    /\ pc = "round_sleep" => Len(processed) = Len(symbols)
    /\ (pc = "round_start" /\ round > 0) => Len(processed) = Len(symbols)

\* C9 witness: a round ended in which the call for the first entry ended in
\* the exception handler
C9_RoundEndsAfterFailure ==
    /\ pc = "round_sleep"
    /\ Len(processed) = Len(symbols)
    /\ processed[1].status = "caught"

\* C10: after a fetch failed with an expired session no further fetch starts
\* before init_tv has run again.
C10_ReacquiresSession ==
    authPending => pc \notin {"fetch5", "fetch30"}

\* C11: the venue shown in an alert is the candidate that supplied the bars
\* of the signal, the 5-minute frame and the 30-minute frame alike.
C11_EffectiveVenueShown ==
    msg # NoMsg =>
        /\ used_ex # None => msg.symbol = used_ex \o <<":">> \o sym_token
        /\ used_ex30 = used_ex

\* the indicator values the conditions and the levels of row i need
Defined(d, i) ==
    /\ d[i].ema20 # NaN
    /\ d[i].supertrend # NaN
    /\ d[i].atr # NaN
    /\ d[i - 1].ema20 # NaN
    /\ d[i - 1].supertrend # NaN

\* C12: a candle with an undefined indicator value, at the candle or at the
\* previous one, produces no signal.
C12_UndefinedSkipped ==
    (Detected /\ (buy \/ sell)) => Defined(df, Len(df))

\* C13: whatever the bars, the first row of compute_supertrend has direction
\* +1 and supertrend equal to the basic upper band hl2 + multiplier * atr
\* (doubled: high + low + 6 atr), undefined where the ATR is; later iterations
\* leave the first row alone.
C13_SupertrendSeed ==
    st_i >= 1 =>
        /\ dirn[1] = 1
        /\ sup[1] = IF st_df[1].atr = NaN THEN NaN
                    ELSE st_df[1].high + st_df[1].low + 6 * st_df[1].atr
        /\ final_upper[1] = sup[1]

\* C13 witness: a frame of MaxBars rows with high 2, low 1 and ATR 1 on the
\* first row was processed to the end: supertrend (2 + 1) / 2 + 3 at row 1
C13_SeededAndDone ==
    /\ pc = "st_done"
    /\ st_i = MaxBars
    /\ st_df[1].high = 2
    /\ st_df[1].low = 1
    /\ st_df[1].atr = 1
    /\ sup[1] = 9
    /\ dirn[1] = 1

\* the reference recurrence, on doubled values
BasicUpper(i) == st_df[i].high + st_df[i].low + 6 * st_df[i].atr
BasicLower(i) == st_df[i].high + st_df[i].low - 6 * st_df[i].atr

RECURSIVE RefFinalUpper(_)
RefFinalUpper(i) ==
    IF i = 1 THEN BasicUpper(1)
    ELSE LET prev == RefFinalUpper(i - 1)
         IN  IF BasicUpper(i) < prev \/ 2 * st_df[i - 1].close > prev
             THEN BasicUpper(i) ELSE prev

RECURSIVE RefFinalLower(_)
RefFinalLower(i) ==
    IF i = 1 THEN BasicLower(1)
    ELSE LET prev == RefFinalLower(i - 1)
         IN  IF BasicLower(i) > prev \/ 2 * st_df[i - 1].close < prev
             THEN BasicLower(i) ELSE prev

RECURSIVE RefDirection(_)
RefDirection(i) ==
    IF i = 1 THEN 1
    ELSE IF 2 * st_df[i].close > RefFinalUpper(i - 1) THEN 1
    ELSE IF 2 * st_df[i].close < RefFinalLower(i - 1) THEN 0 - 1
    ELSE RefDirection(i - 1)

RECURSIVE RefSupertrend(_)
RefSupertrend(i) ==
    IF i = 1 THEN BasicUpper(1)
    ELSE IF 2 * st_df[i].close > RefFinalUpper(i - 1) THEN RefFinalLower(i)
    ELSE IF 2 * st_df[i].close < RefFinalLower(i - 1) THEN RefFinalUpper(i)
    ELSE RefSupertrend(i - 1)

AtrDefined == \A i \in 1..Len(st_df) : st_df[i].atr # NaN

\* C16: on frames with integer prices and ATR values the loop yields, row by
\* row, the final bands, direction and supertrend of the reference
\* recurrence; the final upper band does not rise while the previous close
\* is not above it.
C16_SupertrendRecurrence ==
    AtrDefined =>
        \A i \in 1..st_i :
            /\ final_upper[i] = RefFinalUpper(i)
            /\ final_lower[i] = RefFinalLower(i)
            /\ dirn[i] = RefDirection(i)
            /\ sup[i] = RefSupertrend(i)
            /\ (i > 1 /\ BasicUpper(i) >= final_upper[i - 1]
                      /\ 2 * st_df[i - 1].close <= final_upper[i - 1])
                  => final_upper[i] <= final_upper[i - 1]

\* C16 witness: with ATR 0 the direction goes down at row 2 and up again at
\* row 3
C16_DownAndUp ==
    /\ pc = "st_done"
    /\ AtrDefined
    /\ st_i = 3
    /\ dirn = <<1, 0 - 1, 1>>
    /\ sup[2] = final_upper[2]
    /\ sup[3] = final_lower[3]

\* s is in upper case: str.upper() leaves it as it is
IsUpper(s) == \A i \in 1..Len(s) : \A j \in 1..Len(LowerCase) : s[i] # LowerCase[j]

\* the suffix rules of parse_symbol apply to s
HasSuffix(s) ==
    \E suf \in {<<".","N","S">>, <<"-","N","S">>, <<".","B","O">>, <<"-","B","O">>} :
        endswith(upper(s), suf)

\* C14 as claimed: the venue parse_symbol returns is in upper case and never
\* empty.
C14_ParsedVenueNeverEmpty ==
    parsed # NoParse => (parsed[1] # <<>> /\ IsUpper(parsed[1]))

\* C14 amended: parse_symbol always returns a pair whose venue is in upper
\* case; the venue is empty only for a string with nothing before its first
\* colon, and calculate_signals then takes NSE, so the venue it works with is
\* never empty; a blank string gives (NSE, "") and a call without instrument
\* returns before any fetch.
C14_ResolvedVenueNeverEmpty ==
    parsed # NoParse =>
        /\ Len(parsed) = 2
        /\ IsUpper(parsed[1])
        /\ parsed[1] = <<>> => (HasColon(raw_symbol) /\ ex_token = NSE)
        /\ parsed[1] # <<>> => ex_token = parsed[1]
        /\ ex_token # <<>>
        /\ IsUpper(ex_token)
        /\ (\A i \in 1..Len(raw_symbol) : raw_symbol[i] = " ")
              => parsed = <<NSE, <<>>>>
        /\ sym_token = <<>> =>
              (pc = "pause" /\ csStatus = "returned" /\ calls = 0)

\* C14 witness: ":n" parses to an empty venue, the call goes on to fetch with
\* venue NSE
C14_EmptyVenueDefaulted ==
    /\ raw_symbol = <<":", "n">>
    /\ parsed = <<<<>>, <<"n">>>>
    /\ ex_token = NSE
    /\ pc = "fetch5"

\* the venue codes of the substring rule, in its order
SubstringCodes ==
    <<NSE, BSE, MCX, TVC, INDEX, OANDA, CAPITALCOM, IG, SKILLING, SPREADEX,
      SZSE, VANTAGE, NSEIX>>

\* raw, stripped, has neither a colon nor one of the suffixes
Plain(raw) ==
    /\ strip(raw) # <<>>
    /\ ~HasColon(strip(raw))
    /\ ~HasSuffix(strip(raw))

\* C15 as claimed: a string without colon and suffix that contains a venue
\* code resolves to the first code it contains, with the whole string as the
\* instrument.
C15_SubstringVenue ==
    (parsed # NoParse /\ Plain(raw_symbol)) =>
        \A j \in 1..Len(SubstringCodes) :
            (/\ contains(upper(raw_symbol), SubstringCodes[j])
             /\ \A m \in 1..(j - 1) :
                   ~contains(upper(raw_symbol), SubstringCodes[m]))
            => parsed = <<SubstringCodes[j], strip(raw_symbol)>>

\* C15 amended: a string without colon and suffix resolves to the venue NSE
\* with the stripped string as the instrument, whether or not it contains a
\* venue code.
C15_PlainIsDefaultVenue ==
    (parsed # NoParse /\ Plain(raw_symbol)) =>
        parsed = <<NSE, strip(raw_symbol)>>

\* C15 witness: "BSE" resolves to NSE with instrument "BSE"
C15_CodeInsideIgnored ==
    /\ raw_symbol = <<"B", "S", "E">>
    /\ parsed = <<NSE, <<"B", "S", "E">>>>
    /\ sym_token = <<"B", "S", "E">>
    /\ pc = "fetch5"

\* C17: one instrument at a time, in rounds that do not overlap: a call
\* starts only from the pause after the previous instrument of the round or
\* at the start of a round; a pause lasts PAUSE_BETWEEN_SYMBOLS and follows
\* each call; a round ends only from the pause after the last instrument and
\* the next one starts only after SLEEP_BETWEEN_SCANS more.
C17_SequentialRounds ==
    [][/\ clock' >= clock
       /\ (pc' = "call" /\ pc # "call") =>
             \/ /\ pc = "pause"
                /\ idx' = idx + 1
                /\ round' = round
                /\ clock' = clock + PAUSE_BETWEEN_SYMBOLS
             \/ /\ pc = "round_start"
                /\ idx' = 1
                /\ round' = round + 1
       /\ pc = "pause" =>
             /\ pc' \in {"call", "round_sleep"}
             /\ clock' = clock + PAUSE_BETWEEN_SYMBOLS
       /\ (pc' = "pause" /\ pc # "pause") =>
             (pc \in {"call", "fetch5", "fetch30", "compute", "detect", "dedup",
                      "send"} /\ UNCHANGED <<idx, round, clock>>)
       /\ (pc' = "round_sleep" /\ pc # "round_sleep") =>
             (pc = "pause" /\ idx = Len(symbols))
       /\ (pc' = "round_start" /\ pc # "round_start") =>
             \/ pc = "boot"
             \/ pc = "round_sleep" /\ clock' = clock + SLEEP_BETWEEN_SCANS
      ]_vars

\* C17 witness: the first call of the second round starts one full pass,
\* three pauses and the sleep between rounds after the start
C17_SecondRoundStarts ==
    /\ pc = "call"
    /\ round = 2
    /\ idx = 1
    /\ clock = HM(9, 14) + 55 + 3 * 5 + 300

\* C18 as claimed: no two provider calls without a delay in between.
C18_EveryCallPaced == calls <= 1

\* C18 amended: the delay lies between instruments only: a call of
\* calculate_signals starts after a sleep, and the provider calls it makes,
\* the candidates of a chain and the 5-minute and 30-minute fetches, follow
\* one another without a sleep.
C18_PacedBetweenInstruments ==
    /\ pc \in {"call", "round_sleep", "round_start", "boot"} => calls = 0
    /\ pc = "fetch30" => calls >= 1
    /\ pc \in {"compute", "detect", "dedup", "send"} => calls >= 2
    /\ (pc = "pause" /\ fstatus # "-") => calls >= 1

\* C18 witness: both frames were fetched, the 5-minute one from the second
\* candidate: three provider calls or more since the last sleep
C18_BackToBack ==
    /\ pc = "compute"
    /\ used_ex # ex_token
    /\ calls >= 3

\* the hours of the venues of the watch-list: NSE 09:15-15:30 and BSE
\* 09:00-15:30, Monday to Friday, IST
OpenAt(venue, t) ==
    LET day == (t \div 86400) % 7
        sec == t % 86400
    IN  /\ day <= 4
        /\ sec <= 15 * 3600 + 30 * 60
        /\ sec >= IF venue = NSE THEN 9 * 3600 + 15 * 60 ELSE 9 * 3600

C20_DedupMapFrame ==
    [][LET key == dedup_key(used_ex, ex_token, sym_token) IN
       /\ last_signal_sent' # last_signal_sent => (pc = "dedup" /\ pc' = "send")
       /\ (pc = "dedup" /\ pc' = "send") =>
             /\ DOMAIN last_signal_sent' = DOMAIN last_signal_sent \cup {key}
             /\ last_signal_sent'[key] = clock
             /\ \A x \in DOMAIN last_signal_sent :
                   x # key => last_signal_sent'[x] = last_signal_sent[x]
       /\ pc' = "send" => pc = "dedup"
      ]_vars

\* C20 witness: the post failed and the entry recorded before it is still in
\* the map, next to the entry of another key
C20_KeptAfterFailedPost ==
    /\ pc = "pause"
    /\ tgResult = "http_error"
    /\ dedup_key(used_ex, ex_token, sym_token) \in DOMAIN last_signal_sent
    /\ last_signal_sent[dedup_key(used_ex, ex_token, sym_token)] = clock
    /\ \E x \in DOMAIN last_signal_sent : last_signal_sent[x] < clock

====
